---- MODULE Spec2Model ----
(***************************************************************************)
(* A model of bot.py, the liquidity-mining report bot: the computation     *)
(* engine (timestamp normalisation, debt resolution, net value, APR, the   *)
(* two fee aggregators, the daily and weekly report builders), the         *)
(* Telegram splitter, the Sheets retry wrapper and the group loop of main. *)
(*                                                                         *)
(* Encoding of Python values.                                              *)
(*  - A raw JSON field is a tuple: <<n>> for the number n, <<"str", s>>    *)
(*    for the string s (a sequence of characters, not a number), <<>> when *)
(*    the key is absent or null.                                           *)
(*  - USD amounts and token quantities are integers (whole dollars).       *)
(*  - Timestamps do not fit TLC's 32-bit integers (the millisecond         *)
(*    threshold is 10^10), so a timestamp is a pair <<hi, lo>> standing    *)
(*    for hi * 10^6 + lo with 0 <= lo < 10^6.                              *)
(*  - An optional result (Python None or a value) is None or Some(v).      *)
(***************************************************************************)
EXTENDS Integers, Sequences, FiniteSets, TLC

VARIABLES
    \* extract_repay_usd_from_cash_flows / calc_net_usd applied to one position
    pos, debt_out, net_out,
    \* the engine applied to one group's fetched positions: the inputs, the
    \* function applied (call) and what it returned (ret)
    now_dt, pos_list_open, pos_list_exited, call, ret,
    \* send_telegram: TG_BOT_TOKEN set, chat_id given, the text (the lengths of
    \* its lines), where the call is, the chunks and how many were posted
    tg_token, tg_chat, tg_text, tg_pc, tg_chunks, tg_sent,
    \* sheets_call: the wrapped operation, the attempt, where the call is, the
    \* last exception message, the calls made and the last wait
    sc_fn, sc_attempt, sc_pc, sc_err, sc_calls, sc_wait,
    \* main: REPORT_MODE, BACKFILL_ONCE, BACKFILL_DAYS, BACKFILL_OFFSET_DAYS,
    \* BACKFILL_ONLY_NAME (upper-cased), cfg["safes"]; the index of the group of
    \* the for loop, where main is, the backfill day d and what became of the
    \* days so far, the exception caught, the ledger cells written and what
    \* became of each group
    mode, backfill_once, backfill_days, backfill_offset, only_name, safes,
    gi, main_pc, bf_d, bf_log, exc, ledger, log,
    \* the DAILY_WIDE worksheet: its cells (rows of strings, "" an empty cell),
    \* what get_all_values returns for a sheet without data, and the calls of
    \* append_daily_wide_numbered made so far
    ws_cells, ws_empty, ws_log,
    \* _to_ts_sec applied to the raw timestamps of a history, one by one
    ts_raw, ts_sec

debtVars == <<pos, debt_out, net_out>>
engineVars == <<now_dt, pos_list_open, pos_list_exited, call, ret>>
tgVars == <<tg_token, tg_chat, tg_text, tg_pc, tg_chunks, tg_sent>>
scVars == <<sc_fn, sc_attempt, sc_pc, sc_err, sc_calls, sc_wait>>
cfgVars == <<mode, backfill_once, backfill_days, backfill_offset, only_name, safes>>
runVars == <<gi, main_pc, bf_d, bf_log, exc, ledger, log>>
mainVars == <<cfgVars, runVars>>
wsVars == <<ws_cells, ws_empty, ws_log>>
tsVars == <<ts_raw, ts_sec>>
vars == <<debtVars, engineVars, tgVars, scVars, mainVars, wsVars, tsVars>>
\* What main and send_telegram never touch.
idleVars == <<debtVars, engineVars, scVars, wsVars, tsVars>>

(***************************************************************************)
(* Python values                                                           *)
(***************************************************************************)
None == <<>>
Some(v) == <<v>>
IsNone(x) == Len(x) = 0
Val(x) == x[1]

PyNone == <<>>
Num(n) == <<n>>
Str(s) == <<"str", s>>
IsNum(x) == Len(x) = 1
IsStr(x) == Len(x) = 2

\* The sum of f[i] over the finite set I.
RECURSIVE SumOver(_, _)
SumOver(I, f) ==
    IF I = {} THEN 0
    ELSE LET i == CHOOSE i \in I : TRUE IN f[i] + SumOver(I \ {i}, f)

\* Sequences of at most n elements of S.
SeqUpTo(S, n) == UNION {[1..m -> S] : m \in 0..n}

Max(a, b) == IF a >= b THEN a ELSE b
Abs(a) == IF a < 0 THEN -a ELSE a

(***************************************************************************)
(* Two-limb integers <<hi, lo>> = hi * 10^6 + lo                           *)
(***************************************************************************)
Big(hi, lo) == <<hi, lo>>
BigLT(a, b) == a[1] < b[1] \/ (a[1] = b[1] /\ a[2] < b[2])
BigLE(a, b) == a = b \/ BigLT(a, b)
BigGT(a, b) == BigLT(b, a)
BigGE(a, b) == BigLE(b, a)
\* Floor division by 1000 (Python's //).
BigDiv1000(a) == <<a[1] \div 1000, (a[1] % 1000) * 1000 + (a[2] \div 1000)>>

(***************************************************************************)
(* Strings are sequences of one-character strings                          *)
(***************************************************************************)
UpperChars == <<"A","B","C","D","E","F","G","H","I","J","K","L","M",
                "N","O","P","Q","R","S","T","U","V","W","X","Y","Z">>
LowerChars == <<"a","b","c","d","e","f","g","h","i","j","k","l","m",
                "n","o","p","q","r","s","t","u","v","w","x","y","z">>
LowerChar(c) ==
    IF \E i \in 1..26 : UpperChars[i] = c
    THEN LowerChars[CHOOSE i \in 1..26 : UpperChars[i] = c]
    ELSE c
StrLower(s) == [i \in 1..Len(s) |-> LowerChar(s[i])]
UpperChar(c) ==
    IF \E i \in 1..26 : LowerChars[i] = c
    THEN UpperChars[CHOOSE i \in 1..26 : LowerChars[i] = c]
    ELSE c
StrUpper(s) == [i \in 1..Len(s) |-> UpperChar(s[i])]

RECURSIVE LStrip(_)
LStrip(s) == IF Len(s) > 0 /\ s[1] = " " THEN LStrip(Tail(s)) ELSE s
RECURSIVE RStrip(_)
RStrip(s) == IF Len(s) > 0 /\ s[Len(s)] = " " THEN RStrip(SubSeq(s, 1, Len(s) - 1)) ELSE s
StrStrip(s) == RStrip(LStrip(s))

\* Python's `sub in s`.
StrContains(sub, s) ==
    \E i \in 1..(Len(s) - Len(sub) + 1) : SubSeq(s, i, i + Len(sub) - 1) = sub

(***************************************************************************)
(* Helpers of bot.py                                                       *)
(***************************************************************************)
\* to_f(x): float(x), or None when x is absent or not a number.
to_f(x) == IF IsNum(x) THEN Some(x[1]) ELSE None

\* Python's `x or 0.0` on an optional number: None and 0 both give 0.
Or0(x) == IF IsNone(x) THEN 0 ELSE Val(x)

\* _lower(s): str(s or "").strip().lower()
_lower(s) == IF IsStr(s) THEN StrLower(StrStrip(s[2])) ELSE <<>>

\* 10_000_000_000
MsThresholdMutant == Big(1000, 0)
MsThreshold == Big(10000, 0)

\* A float with a fractional part: sign * (whole + 1/2), whole a two-limb
\* integer >= 0; float("inf") and float("nan").
Float(sign, whole) == <<"float", sign, whole>>
FloatInf == <<"inf", 1, Big(0, 0)>>
FloatNan == <<"nan", 1, Big(0, 0)>>

\* -a of a two-limb integer a >= 0.
BigNeg(a) == IF a[2] = 0 THEN <<0 - a[1], 0>> ELSE <<0 - a[1] - 1, 1000000 - a[2]>>

Digits == <<"0", "1", "2", "3", "4", "5", "6", "7", "8", "9">>

\* The number a sequence of decimal digits spells (below 2^31).
RECURSIVE DigitsValue(_)
DigitsValue(ds) ==
    IF ds = <<>> THEN 0
    ELSE DigitsValue(SubSeq(ds, 1, Len(ds) - 1)) * 10
         + (CHOOSE v \in 0..9 : Digits[v + 1] = ds[Len(ds)])

\* A non-empty sequence of decimal digits.
IsDigits(ds) == ds # <<>> /\ \A i \in 1..Len(ds) : \E v \in 1..10 : Digits[v] = ds[i]

\* The two-limb integer a sequence of decimal digits spells.
Magnitude(ds) ==
    IF Len(ds) <= 6 THEN <<0, DigitsValue(ds)>>
    ELSE <<DigitsValue(SubSeq(ds, 1, Len(ds) - 6)),
           DigitsValue(SubSeq(ds, Len(ds) - 5, Len(ds)))>>

\* int() of the digits after the sign; None for ValueError.
PyIntUnsigned(ds, neg) ==
    IF ~IsDigits(ds) THEN None
    ELSE IF neg THEN Some(BigNeg(Magnitude(ds)))
    ELSE Some(Magnitude(ds))

\* int() of a stripped string: an optional sign, decimal digits.
PyIntSigned(t) ==
    IF t # <<>> /\ t[1] \in {"-", "+"} THEN PyIntUnsigned(Tail(t), t[1] = "-")
    ELSE PyIntUnsigned(t, FALSE)

\* int(s) of a string: surrounding whitespace, an optional sign, decimal
\* digits; None for ValueError.
PyIntOfStr(s) == PyIntSigned(StrStrip(s))

\* int(ts): an integer is itself, a float is truncated toward zero, a string
\* is parsed; None for TypeError (None), ValueError (nan, a string that is no
\* integer literal) and OverflowError (inf).
PyInt(ts) ==
    IF IsNum(ts) THEN Some(ts[1])
    ELSE IF IsStr(ts) THEN PyIntOfStr(ts[2])
    ELSE IF Len(ts) = 3 /\ ts[1] = "float"
         THEN Some(IF ts[2] < 0 THEN BigNeg(ts[3]) ELSE ts[3])
    ELSE None

\* ts_i integer-divided by 1000 when above 10^10 (milliseconds); None stays
\* None.
MsToSec(ts_i) ==
    IF IsNone(ts_i) THEN None
    ELSE IF BigGT(Val(ts_i), MsThreshold) THEN Some(BigDiv1000(Val(ts_i)))
    ELSE ts_i

\* _to_ts_sec(ts): int(ts), integer-divided by 1000 when above 10^10; None
\* when int(ts) raises.
_to_ts_sec(ts) == MsToSec(PyInt(ts))

(***************************************************************************)
(* Event types                                                             *)
(***************************************************************************)
TyBorrow      == <<"l","e","n","d","o","r","-","b","o","r","r","o","w">>
TyRepay       == <<"l","e","n","d","o","r","-","r","e","p","a","y">>
TyRepayRaw    == <<"L","e","n","d","o","r","-","R","e","p","a","y"," ">>
TyFeesColl    == <<"f","e","e","s","-","c","o","l","l","e","c","t","e","d">>
TyFeesCollRaw == <<" ","F","e","e","s","-","C","o","l","l","e","c","t","e","d">>
TyClaimedFees == <<"c","l","a","i","m","e","d","-","f","e","e","s">>
TyCollect     == <<"c","o","l","l","e","c","t">>
TyDeposits    == <<"d","e","p","o","s","i","t","s">>

MarkFee     == <<"f","e","e">>
MarkCollect == <<"c","o","l","l","e","c","t">>
MarkClaim   == <<"c","l","a","i","m">>

(***************************************************************************)
(* Cash-flow events and positions                                          *)
(***************************************************************************)
\* An event with every field absent.
Ev0 == [type |-> PyNone, timestamp |-> PyNone, total_debt |-> PyNone,
        amount_usd |-> PyNone, usd |-> PyNone, value_usd |-> PyNone,
        valueUsd |-> PyNone, amountUsd |-> PyNone,
        price0 |-> PyNone, price1 |-> PyNone,
        collected_fees_token0 |-> PyNone, claimed_token0 |-> PyNone,
        fees0 |-> PyNone, amount0 |-> PyNone,
        collected_fees_token1 |-> PyNone, claimed_token1 |-> PyNone,
        fees1 |-> PyNone, amount1 |-> PyNone]

\* A position; nft_id is None when the key is absent.
Position(nft, underlying, fees_value, in_range, cfs) ==
    [nft_id |-> nft, underlying_value |-> underlying, fees_value |-> fees_value,
     in_range |-> in_range, cash_flows |-> cfs]

(***************************************************************************)
(* Net USD: extract_repay_usd_from_cash_flows, calc_net_usd                *)
(***************************************************************************)
IsBorrowRepay(cf) == _lower(cf.type) \in {TyBorrow, TyRepay}

\* ts = to_f(cf.get("timestamp")) or 0: the raw value, not normalised.
DebtTs(cf) == IF IsNone(to_f(cf.timestamp)) THEN Big(0, 0) ELSE Val(to_f(cf.timestamp))

\* latest_ts = -1
InitLatestTs == Big(-1, 999999)

\* The first loop: the total_debt of the event that wins `ts >= latest_ts`.
RECURSIVE ScanTotalDebt(_, _, _, _)
ScanTotalDebt(cfs, i, latest, latest_ts) ==
    IF i > Len(cfs) THEN latest
    ELSE LET cf == cfs[i]
             td == to_f(cf.total_debt)
             ts == DebtTs(cf)
         IN  IF ~IsBorrowRepay(cf) THEN ScanTotalDebt(cfs, i + 1, latest, latest_ts)
             ELSE IF ~IsNone(td) /\ BigGE(ts, latest_ts)
                  THEN ScanTotalDebt(cfs, i + 1, td, ts)
                  ELSE ScanTotalDebt(cfs, i + 1, latest, latest_ts)

\* v = the first parseable of amount_usd, usd, value_usd, valueUsd, amountUsd.
DebtUsd(cf) ==
    IF ~IsNone(to_f(cf.amount_usd)) THEN to_f(cf.amount_usd)
    ELSE IF ~IsNone(to_f(cf.usd)) THEN to_f(cf.usd)
    ELSE IF ~IsNone(to_f(cf.value_usd)) THEN to_f(cf.value_usd)
    ELSE IF ~IsNone(to_f(cf.valueUsd)) THEN to_f(cf.valueUsd)
    ELSE to_f(cf.amountUsd)

\* The second loop: <<borrow_usd, repay_usd>>.
RECURSIVE SumBorrowRepay(_, _, _, _)
SumBorrowRepay(cfs, i, borrow_usd, repay_usd) ==
    IF i > Len(cfs) THEN <<borrow_usd, repay_usd>>
    ELSE LET cf == cfs[i]
             v == DebtUsd(cf)
         IN  IF ~IsBorrowRepay(cf) \/ IsNone(v)
             THEN SumBorrowRepay(cfs, i + 1, borrow_usd, repay_usd)
             ELSE IF _lower(cf.type) = TyBorrow
                  THEN SumBorrowRepay(cfs, i + 1, borrow_usd + Abs(Val(v)), repay_usd)
                  ELSE SumBorrowRepay(cfs, i + 1, borrow_usd, repay_usd + Abs(Val(v)))

\* return debt if debt > 0 else 0.0
ClampDebtMutant(debt) == debt
ClampDebt(debt) == IF debt > 0 THEN debt ELSE 0

extract_repay_usd_from_cash_flows(p) ==
    LET cfs == p.cash_flows
        latest == ScanTotalDebt(cfs, 1, None, InitLatestTs)
        sums == SumBorrowRepay(cfs, 1, 0, 0)
    IN  IF ~IsNone(latest) THEN Max(Val(latest), 0)
        ELSE ClampDebt(sums[1] - sums[2])

\* calc_net_usd(pos): None when underlying_value does not parse.
calc_net_usd(p) ==
    LET pooled_usd == to_f(p.underlying_value)
    IN  IF IsNone(pooled_usd) THEN None
        ELSE Some(Val(pooled_usd) - extract_repay_usd_from_cash_flows(p))

(***************************************************************************)
(* Mode / Time                                                             *)
(***************************************************************************)
\* An epoch-second count below 2^31 as a two-limb integer.
ToBig(n) == <<n \div 1000000, n % 1000000>>

\* The same instant in milliseconds.
ToMillis(n) == <<n \div 1000, (n % 1000) * 1000>>

\* get_period_end_jst(now): 09:00 JST of now's JST calendar day, in epoch
\* seconds (09:00 JST is 00:00 UTC, and the JST day of t is the UTC day of
\* t + 9h).
get_period_end_jst(now) == ((now + 32400) \div 86400) * 86400

(***************************************************************************)
(* APR: calc_fee_apr_a. The APR is the rational num / den.                 *)
(***************************************************************************)
calc_fee_apr_a(fee_24h_usd, net_usd) ==
    IF IsNone(fee_24h_usd) \/ IsNone(net_usd) THEN None
    ELSE IF Val(net_usd) <= 0 THEN None
    ELSE Some([num |-> Val(fee_24h_usd) * 365 * 100, den |-> Val(net_usd)])

(***************************************************************************)
(* Fee amount of one event: explicit amount_usd, else prices x quantities  *)
(***************************************************************************)
\* Python's `a or b` on optional numbers: a unless it is None or 0.
PyOr(a, b) == IF IsNone(a) \/ Val(a) = 0 THEN b ELSE a

Qty0(cf) ==
    Or0(PyOr(PyOr(PyOr(to_f(cf.collected_fees_token0), to_f(cf.claimed_token0)),
                  to_f(cf.fees0)), to_f(cf.amount0)))
Qty1(cf) ==
    Or0(PyOr(PyOr(PyOr(to_f(cf.collected_fees_token1), to_f(cf.claimed_token1)),
                  to_f(cf.fees1)), to_f(cf.amount1)))

Reconstruct(cf) ==
    Abs(Qty0(cf)) * Or0(to_f(cf.price0)) + Abs(Qty1(cf)) * Or0(to_f(cf.price1))

ResolveAmount(cf) ==
    IF ~IsNone(to_f(cf.amount_usd)) THEN Val(to_f(cf.amount_usd)) ELSE Reconstruct(cf)

(***************************************************************************)
(* 24h fee calc (Daily): calc_fee_usd_24h_from_cash_flows                  *)
(***************************************************************************)
\* any(k in t for k in ("fee", "collect", "claim"))
BroadMatch(t) ==
    StrContains(MarkFee, t) \/ StrContains(MarkCollect, t) \/ StrContains(MarkClaim, t)

\* nft_id = str(pos.get("nft_id", "UNKNOWN"))
NftId(p) == IF IsNone(p.nft_id) THEN "UNKNOWN" ELSE Val(p.nft_id)

\* d.get(key, 0)
Get0(d, key) == IF key \in DOMAIN d THEN d[key] ELSE 0
\* d[key] = d.get(key, 0) + x
AddTo(d, key, x) == [k \in DOMAIN d \cup {key} |-> IF k = key THEN Get0(d, key) + x ELSE d[k]]

\* Whether the local DEBUG_FEE_TRACE is bound when line 381 reads it: its only
\* assignment (line 335) follows `continue` inside the `not isinstance` branch
\* and never runs, and the assignment makes the name local to the function.
DebugFeeTraceBound == FALSE

\* The window test: ts_dt < start_dt or ts_dt >= end_dt skips the event.
InWindowMutant(ts, start, end) == BigGE(ts, start) /\ BigLE(ts, end)
InWindow(ts, start, end) == ~(BigLT(ts, start) \/ BigGE(ts, end))

Fee24Acc0 == [raised |-> FALSE, total |-> 0, count |-> 0,
              fee_by_nft |-> <<>>, count_by_nft |-> <<>>]

\* The body of the inner loop for one event of the position nft_id.
Fee24Event(acc, nft_id, cf, start, end) ==
    LET t == _lower(cf.type)
        ts == _to_ts_sec(cf.timestamp)
        amt_usd == ResolveAmount(cf)
    IN  IF acc.raised THEN acc
        ELSE IF ~BroadMatch(t) THEN acc
        ELSE IF IsNone(ts) THEN acc
        ELSE IF ~InWindow(Val(ts), start, end) THEN acc
        ELSE IF ~(amt_usd > 0) THEN acc
        ELSE IF ~DebugFeeTraceBound THEN [acc EXCEPT !.raised = TRUE]
        ELSE [raised |-> FALSE,
              total |-> acc.total + amt_usd,
              count |-> acc.count + 1,
              fee_by_nft |-> AddTo(acc.fee_by_nft, nft_id, amt_usd),
              count_by_nft |-> AddTo(acc.count_by_nft, nft_id, 1)]

RECURSIVE Fee24Flows(_, _, _, _, _, _)
Fee24Flows(acc, nft_id, cfs, i, start, end) ==
    IF i > Len(cfs) THEN acc
    ELSE Fee24Flows(Fee24Event(acc, nft_id, cfs[i], start, end), nft_id, cfs, i + 1, start, end)

RECURSIVE Fee24Positions(_, _, _, _, _)
Fee24Positions(acc, pos_list, i, start, end) ==
    IF i > Len(pos_list) THEN acc
    ELSE Fee24Positions(
             Fee24Flows(acc, NftId(pos_list[i]), pos_list[i].cash_flows, 1, start, end),
             pos_list, i + 1, start, end)

\* t_now (now_dt) in epoch seconds; the result carries start_dt and end_dt.
calc_fee_usd_24h_from_cash_flows(pos_list_all, t_now) ==
    LET end_dt == get_period_end_jst(t_now)
        start_dt == end_dt - 86400
        acc == Fee24Positions(Fee24Acc0, pos_list_all, 1, ToBig(start_dt), ToBig(end_dt))
    IN  [raised |-> acc.raised, total |-> acc.total, count |-> acc.count,
         fee_by_nft |-> acc.fee_by_nft, count_by_nft |-> acc.count_by_nft,
         start_dt |-> start_dt, end_dt |-> end_dt]

(***************************************************************************)
(* Weekly fee calc: calc_fees_usd_in_window_from_cash_flows                *)
(***************************************************************************)
StrictMatch(t) == t \in {TyFeesColl, TyClaimedFees}

FeeWinEvent(acc, cf, start, end) ==
    LET t == _lower(cf.type)
        ts == _to_ts_sec(cf.timestamp)
        amt_usd == ResolveAmount(cf)
    IN  IF ~StrictMatch(t) THEN acc
        ELSE IF IsNone(ts) THEN acc
        ELSE IF ~InWindow(Val(ts), start, end) THEN acc
        ELSE IF amt_usd <= 0 THEN acc
        ELSE [total |-> acc.total + amt_usd, count |-> acc.count + 1]

RECURSIVE FeeWinFlows(_, _, _, _, _)
FeeWinFlows(acc, cfs, i, start, end) ==
    IF i > Len(cfs) THEN acc
    ELSE FeeWinFlows(FeeWinEvent(acc, cfs[i], start, end), cfs, i + 1, start, end)

RECURSIVE FeeWinPositions(_, _, _, _, _)
FeeWinPositions(acc, pos_list, i, start, end) ==
    IF i > Len(pos_list) THEN acc
    ELSE FeeWinPositions(FeeWinFlows(acc, pos_list[i].cash_flows, 1, start, end),
                         pos_list, i + 1, start, end)

\* start_dt and end_dt as two-limb epoch seconds.
calc_fees_usd_in_window_from_cash_flows(pos_list_all, start_dt, end_dt) ==
    FeeWinPositions([total |-> 0, count |-> 0], pos_list_all, 1, start_dt, end_dt)

(***************************************************************************)
(* Daily report: build_daily_report_for_safe                               *)
(***************************************************************************)
\* fmt_money / fmt_pct: "N/A" when float(x) fails, the formatted number otherwise.
fmt_money(x) == IF IsNone(x) THEN <<"N/A">> ELSE <<"$", Val(x)>>
fmt_pct(x) == IF IsNone(x) THEN <<"N/A">> ELSE <<"%", Val(x)>>

\* status = "OUT OF RANGE" if in_range is False else "ACTIVE"
Status(p) == IF p.in_range = <<FALSE>> THEN "OUT OF RANGE" ELSE "ACTIVE"

\* net = float(calc_net_usd(pos) or 0.0)
LineNet(p) == Or0(calc_net_usd(p))

\* fees_value = float(to_f(pos.get("fees_value"), 0.0) or 0.0)
FeesValue(p) == Or0(to_f(p.fees_value))

\* The block appended to nft_blocks for one open position (FULL and COMPACT
\* render the same values).
DailyLine(p, fee_by_nft) ==
    LET net == LineNet(p)
        fees_value == FeesValue(p)
        fee_usd_nft == Get0(fee_by_nft, NftId(p))
        nft_fee_apr == calc_fee_apr_a(Some(fee_usd_nft + fees_value), Some(net))
    IN  [nft_id |-> NftId(p), status |-> Status(p), net |-> fmt_money(Some(net)),
         unclaimed |-> fmt_money(Some(fees_value)), apr |-> fmt_pct(nft_fee_apr),
         nft_fee_apr |-> nft_fee_apr]

RECURSIVE SumNet(_, _)
SumNet(pos_list, i) ==
    IF i > Len(pos_list) THEN 0 ELSE LineNet(pos_list[i]) + SumNet(pos_list, i + 1)

RECURSIVE SumFeesValue(_, _)
SumFeesValue(pos_list, i) ==
    IF i > Len(pos_list) THEN 0 ELSE FeesValue(pos_list[i]) + SumFeesValue(pos_list, i + 1)

\* open_, exited: the normalised position lists fetched for the group; end_dt
\* in epoch seconds. Returns the report (its values, rendered as the text
\* renders them), fee_usd and end_dt, or raises.
build_daily_report_for_safe(open_, exited, end_dt, block_level) ==
    LET fee == calc_fee_usd_24h_from_cash_flows(open_ \o exited, end_dt)
        net_total == SumNet(open_, 1)
        unclaimed_total == SumFeesValue(open_, 1)
        apr_base_usd == fee.total + unclaimed_total
        safe_fee_apr == calc_fee_apr_a(Some(apr_base_usd), Some(net_total))
        nft_blocks == IF block_level = "NONE" THEN <<>>
                      ELSE [i \in 1..Len(open_) |-> DailyLine(open_[i], fee.fee_by_nft)]
    IN  IF fee.raised THEN [raised |-> TRUE]
        ELSE [raised |-> FALSE,
              net_total |-> fmt_money(Some(net_total)),
              apr_base_usd |-> fmt_money(Some(apr_base_usd)),
              fee_usd |-> fee.total,
              unclaimed_total |-> fmt_money(Some(unclaimed_total)),
              safe_fee_apr |-> safe_fee_apr,
              apr |-> fmt_pct(safe_fee_apr),
              fee_count |-> fee.count,
              nft_blocks |-> nft_blocks,
              start_dt |-> fee.start_dt,
              end_dt |-> fee.end_dt]

(***************************************************************************)
(* Weekly report: build_weekly_report_for_safe                             *)
(***************************************************************************)
\* datetime(2000, 1, 1, tzinfo=JST) = 1999-12-31 15:00 UTC
AllTimeStart == ToBig(946652400)

\* weekly_apr_pct = (fee_7d_usd / net_total) * 52 * 100 if net_total > 0 else 0.0
WeeklyApr(fee_7d_usd, net_total) ==
    IF net_total > 0 THEN Some([num |-> fee_7d_usd * 52 * 100, den |-> net_total])
    ELSE Some([num |-> 0, den |-> 1])

build_weekly_report_for_safe(open_, exited, t_now) ==
    LET end_dt == get_period_end_jst(t_now)
        start_dt == end_dt - 7 * 86400
        all == open_ \o exited
        fee_7d == calc_fees_usd_in_window_from_cash_flows(all, ToBig(start_dt), ToBig(end_dt))
        fee_all == calc_fees_usd_in_window_from_cash_flows(all, AllTimeStart, ToBig(end_dt))
        net_total == SumNet(open_, 1)
        weekly_apr_pct == WeeklyApr(fee_7d.total, net_total)
    IN  [raised |-> FALSE,
         net_total |-> net_total,
         fee_7d_usd |-> fmt_money(Some(fee_7d.total)),
         avg_daily |-> fmt_money(Some([num |-> fee_7d.total, den |-> 7])),
         weekly_apr_pct |-> weekly_apr_pct,
         apr |-> fmt_pct(weekly_apr_pct),
         tx_7d |-> fee_7d.count,
         fee_all_time_usd |-> fmt_money(Some(fee_all.total)),
         start_dt |-> start_dt,
         end_dt |-> end_dt]

(***************************************************************************)
(* Telegram: send_telegram. A string is a sequence of pieces joined by      *)
(* "\n"; a piece is the characters from..to of one line of the text.        *)
(***************************************************************************)
max_len == 3800

Piece(i, a, b) == [line |-> i, from |-> a, to |-> b]
PieceLen(pc) == pc.to - pc.from + 1

\* len(s)
StrLen(s) ==
    IF s = <<>> THEN 0
    ELSE SumOver(1..Len(s), [k \in 1..Len(s) |-> PieceLen(s[k])]) + Len(s) - 1

\* The rest of a line cut at max_len: line[max_len:]
HardSplitRest(i, n) == Piece(i, max_len + 1, n)

\* The for loop over lines and the final `if buf`; lines[i] is the length of
\* the i-th line of s.split("\n").
RECURSIVE SplitLines(_, _, _, _)
SplitLines(lines, i, buf, chunks) ==
    IF i > Len(lines)
    THEN IF StrLen(buf) > 0 THEN Append(chunks, buf) ELSE chunks
    ELSE LET line == <<Piece(i, 1, lines[i])>>
             candidate == IF StrLen(buf) > 0 THEN buf \o line ELSE line
         IN  IF StrLen(candidate) > max_len
             THEN IF StrLen(buf) > 0
                  THEN SplitLines(lines, i + 1, line, Append(chunks, buf))
                  ELSE SplitLines(lines, i + 1, <<HardSplitRest(i, lines[i])>>,
                                  Append(chunks, <<Piece(i, 1, max_len)>>))
             ELSE SplitLines(lines, i + 1, candidate, chunks)

\* The two early returns: TG_BOT_TOKEN or chat_id missing.
TgReturnEarly ==
    /\ tg_pc = "called"
    /\ ~tg_token \/ ~tg_chat
    /\ tg_pc' = "returned"
    /\ UNCHANGED <<tg_token, tg_chat, tg_text, tg_chunks, tg_sent, debtVars, engineVars, scVars, mainVars, wsVars, tsVars>>

TgSplit ==
    /\ tg_pc = "called"
    /\ tg_token /\ tg_chat
    /\ tg_chunks' = SplitLines(tg_text, 1, <<>>, <<>>)
    /\ tg_pc' = "post"
    /\ UNCHANGED <<tg_token, tg_chat, tg_text, tg_sent, debtVars, engineVars, scVars, mainVars, wsVars, tsVars>>

\* requests.post of the next chunk answers 2xx.
TgPostOk ==
    /\ tg_pc = "post"
    /\ tg_sent < Len(tg_chunks)
    /\ tg_sent' = tg_sent + 1
    /\ UNCHANGED <<tg_token, tg_chat, tg_text, tg_pc, tg_chunks, debtVars, engineVars, scVars, mainVars, wsVars, tsVars>>

\* requests.post raises, or raise_for_status() raises on the answer.
TgPostFail ==
    /\ tg_pc = "post"
    /\ tg_sent < Len(tg_chunks)
    /\ tg_pc' = "raised"
    /\ UNCHANGED <<tg_token, tg_chat, tg_text, tg_chunks, tg_sent, debtVars, engineVars, scVars, mainVars, wsVars, tsVars>>

TgReturn ==
    /\ tg_pc = "post"
    /\ tg_sent = Len(tg_chunks)
    /\ tg_pc' = "returned"
    /\ UNCHANGED <<tg_token, tg_chat, tg_text, tg_chunks, tg_sent, debtVars, engineVars, scVars, mainVars, wsVars, tsVars>>

(***************************************************************************)
(* Sheets: sheets_call                                                     *)
(***************************************************************************)
MaxAttempts == 8

\* "APIError: [429]" in msg or "Quota exceeded" in msg
IsRateLimit(msg) == msg \in {"APIError: [429]", "Quota exceeded"}

\* wait = 2 ** attempt
BackoffWaitMutant(attempt) == 2 * attempt
BackoffWait(attempt) == 2 ^ attempt

\* The exception messages fn can raise.
FnErrors == {"APIError: [429]", "Quota exceeded", "APIError: [500]"}

\* fn(*args, **kwargs) returns.
ScCallOk ==
    /\ sc_pc = "call"
    /\ sc_calls' = sc_calls + 1
    /\ sc_pc' = "returned"
    /\ UNCHANGED <<sc_fn, sc_attempt, sc_err, sc_wait, debtVars, engineVars, tgVars, mainVars, wsVars, tsVars>>

\* fn raises: a rate-limit error goes to sleep, any other propagates.
ScCallRaises ==
    /\ sc_pc = "call"
    /\ sc_calls' = sc_calls + 1
    /\ \E msg \in FnErrors :
           /\ sc_err' = msg
           /\ IF IsRateLimit(msg)
              THEN sc_pc' = "sleep" /\ sc_wait' = BackoffWait(sc_attempt)
              ELSE sc_pc' = "raised" /\ sc_wait' = sc_wait
    /\ UNCHANGED <<sc_fn, sc_attempt, debtVars, engineVars, tgVars, mainVars, wsVars, tsVars>>

\* time.sleep(wait); continue: the next attempt, or, the range being
\* exhausted, raise RuntimeError("Sheets quota 429 retry exhausted").
ScSleep ==
    /\ sc_pc = "sleep"
    /\ sc_attempt' = sc_attempt + 1
    /\ IF sc_attempt + 1 < MaxAttempts
       THEN sc_pc' = "call" /\ sc_err' = sc_err
       ELSE sc_pc' = "raised" /\ sc_err' = "Sheets quota 429 retry exhausted"
    /\ UNCHANGED <<sc_fn, sc_calls, sc_wait, debtVars, engineVars, tgVars, mainVars, wsVars, tsVars>>

(***************************************************************************)
(* Sheets: DAILY_WIDE. Row 1: No, row 2: SAFE name, row 3: safe_address,   *)
(* row 4+: daily values. A worksheet is the sequence of its rows without    *)
(* trailing empty cells and rows.                                          *)
(***************************************************************************)
\* The worksheet after a write: trailing empty cells and rows hold no data.
WsTrim(g) ==
    LET last(row) == IF \E i \in 1..Len(row) : row[i] # ""
                     THEN CHOOSE i \in 1..Len(row) :
                              row[i] # "" /\ \A j \in (i + 1)..Len(row) : row[j] = ""
                     ELSE 0
        rows == [r \in 1..Len(g) |-> SubSeq(g[r], 1, last(g[r]))]
        n == IF \E r \in 1..Len(rows) : rows[r] # <<>>
             THEN CHOOSE r \in 1..Len(rows) :
                      rows[r] # <<>> /\ \A q \in (r + 1)..Len(rows) : rows[q] = <<>>
             ELSE 0
    IN  SubSeq(rows, 1, n)

\* ws.get_all_values(): the rows up to the last one with data, each filled
\* with "" to the width of the widest; `empty` for a sheet without data.
ws_get_all_values(g, empty) ==
    IF g = <<>> THEN empty
    ELSE LET w == CHOOSE w \in 0..64 :
                      /\ \A r \in 1..Len(g) : Len(g[r]) <= w
                      /\ \E r \in 1..Len(g) : Len(g[r]) = w
         IN  [r \in 1..Len(g) |-> [c \in 1..w |-> IF c <= Len(g[r]) THEN g[r][c] ELSE ""]]

\* ws.update(range_name="A<r>", values=[cells]): cells written from column A
\* of row r.
ws_update(g, r, cells) ==
    LET rows == Max(Len(g), r)
        old(q) == IF q <= Len(g) THEN g[q] ELSE <<>>
        new == [c \in 1..Max(Len(old(r)), Len(cells)) |->
                    IF c <= Len(cells) THEN cells[c] ELSE old(r)[c]]
    IN  WsTrim([q \in 1..rows |-> IF q = r THEN new ELSE old(q)])

\* ws.update_cell(r, c, v)
ws_update_cell(g, r, c, v) ==
    LET rows == Max(Len(g), r)
        old(q) == IF q <= Len(g) THEN g[q] ELSE <<>>
        new == [k \in 1..Max(Len(old(r)), c) |->
                    IF k = c THEN v ELSE IF k <= Len(old(r)) THEN old(r)[k] ELSE ""]
    IN  WsTrim([q \in 1..rows |-> IF q = r THEN new ELSE old(q)])

\* ws.append_row(cells): a new row after the last row with data.
ws_append_row(g, cells) == ws_update(g, Len(g) + 1, cells)

\* str(x).strip() of a cell: " " is the one cell of the model with whitespace.
StripCell(x) == IF x = " " THEN "" ELSE x

\* A number written to a cell, as get_all_values gives it back.
NumCell(n) == <<"1", "2", "3", "4", "5", "6", "7", "8", "9">>[n]

\* period_key = f"{period_end_jst.strftime('%Y-%m-%d')} {period_end_jst.hour}:
\* {period_end_jst.strftime('%M')}" of the 09:00 JST period end of day d of
\* January 2026.
PeriodKey(d) ==
    <<"2026-01-01 9:00", "2026-01-02 9:00", "2026-01-03 9:00", "2026-01-04 9:00">>[d]

LabelNames == "period_end_jst"
LabelAddrs == "safe_address"

\* list.index(x) + 1
IndexOf(row, x) == CHOOSE i \in 1..Len(row) : row[i] = x /\ \A j \in 1..(i - 1) : row[j] # x

\* The search of the period's row, lines 741-745: the first row from row 4
\* whose column A, stripped, is period_key; 0 for row_idx = None.
PeriodRowMutant(values, period_key) == 0
PeriodRow(values, period_key) ==
    LET hit(i) == Len(values[i]) >= 1 /\ StripCell(values[i][1]) = period_key
    IN  IF \E i \in 4..Len(values) : hit(i)
        THEN CHOOSE i \in 4..Len(values) : hit(i) /\ \A j \in 4..(i - 1) : ~hit(j)
        ELSE 0

\* Lines 688-693: rows 2 and 3 get their labels when the sheet has fewer rows.
EnsureHeaderRows(g, empty) ==
    LET values == ws_get_all_values(g, empty)
        g1 == IF Len(values) < 2 THEN ws_update(g, 2, <<LabelNames>>) ELSE g
        values1 == IF Len(values) < 2 THEN ws_get_all_values(g1, empty) ELSE values
    IN  IF Len(values1) < 3 THEN ws_update(g1, 3, <<LabelAddrs>>) ELSE g1

\* Lines 695-709: header row n of values (or its default), column A relabelled
\* in memory.
HeaderRow(values, n, label) ==
    LET row == IF Len(values) >= n THEN values[n] ELSE <<label>>
    IN  IF row = <<>> THEN <<label>> ELSE [row EXCEPT ![1] = label]

\* Lines 712-729: the SAFE column appended to the three header rows.
AddSafeColumn(g, values, safe_name, safe_address) ==
    LET header_nums == IF Len(values) >= 1 THEN values[1] ELSE <<"">>
        header_names == HeaderRow(values, 2, LabelNames)
        header_addrs == HeaderRow(values, 3, LabelAddrs)
        next_no == Max(0, Len(header_names) - 1) + 1
        wide == Max(Len(header_nums), Max(Len(header_names), Len(header_addrs)))
        pad(row) == [c \in 1..wide |-> IF c <= Len(row) THEN row[c] ELSE ""]
        u1 == ws_update(g, 1, Append(pad(header_nums), NumCell(next_no)))
        u2 == ws_update(u1, 2, Append(pad(header_names), safe_name))
    IN  ws_update(u2, 3, Append(pad(header_addrs), safe_address))

\* Lines 730-734: the address of an existing SAFE column filled in when blank.
FillSafeAddress(g, values, safe_name, safe_address) ==
    LET header_addrs == HeaderRow(values, 3, LabelAddrs)
        col_idx == IndexOf(HeaderRow(values, 2, LabelNames), safe_name)
        existing == IF Len(header_addrs) >= col_idx THEN header_addrs[col_idx] ELSE ""
    IN  IF StripCell(existing) = "" THEN ws_update_cell(g, 3, col_idx, safe_address) ELSE g

\* Lines 711-734.
EnsureSafeColumn(g, empty, safe_name, safe_address) ==
    LET values == ws_get_all_values(g, empty)
        header_names == HeaderRow(values, 2, LabelNames)
    IN  IF \E i \in 1..Len(header_names) : header_names[i] = safe_name
        THEN FillSafeAddress(g, values, safe_name, safe_address)
        ELSE AddSafeColumn(g, values, safe_name, safe_address)

\* Lines 737-751: the value written to the period's row, appended if missing;
\* header_names.index raises when the re-read row 2 lacks safe_name.
WriteValue(g, empty, period_key, safe_name, claimed) ==
    LET values == ws_get_all_values(g, empty)
        header_names == IF Len(values) >= 2 THEN values[2] ELSE <<LabelNames>>
        col_idx == IndexOf(header_names, safe_name)
        found_row == PeriodRow(values, period_key)
        row_idx == IF found_row # 0 THEN found_row ELSE Len(values) + 1
        g4 == IF found_row # 0 THEN g ELSE ws_append_row(g, <<period_key>>)
    IN  IF ~\E i \in 1..Len(header_names) : header_names[i] = safe_name
        THEN [raised |-> TRUE, cells |-> g]
        ELSE [raised |-> FALSE, cells |-> ws_update_cell(g4, row_idx, col_idx, claimed)]

\* Lines 679-685: the four rows of a sheet without data.
InitializeSheet(g, period_key, safe_name, safe_address, claimed) ==
    LET u1 == ws_update(g, 1, <<"", NumCell(1)>>)
        u2 == ws_update(u1, 2, <<LabelNames, safe_name>>)
        u3 == ws_update(u2, 3, <<LabelAddrs, safe_address>>)
    IN  ws_update(u3, 4, <<period_key, claimed>>)

\* append_daily_wide_numbered(period_end_jst, safe_name, safe_address,
\* claimed_usd_24h) on the worksheet g, every sheets_call returning; the
\* result is the worksheet after the call and whether the call raised.
append_daily_wide_numbered(g, empty, period_key, safe_name, safe_address, claimed) ==
    IF ws_get_all_values(g, empty) = <<>>
    THEN [raised |-> FALSE,
          cells |-> InitializeSheet(g, period_key, safe_name, safe_address, claimed)]
    ELSE WriteValue(EnsureSafeColumn(EnsureHeaderRows(g, empty), empty,
                                     safe_name, safe_address),
                    empty, period_key, safe_name, claimed)

(***************************************************************************)
(* SpecDebt: the Debt Resolver and the Net Value Calculator on one         *)
(* position drawn from a bounded set of borrow/repay histories.            *)
(***************************************************************************)
MaxCashFlows == 2

DebtEv(ty, ts, td, amt, usd) ==
    [Ev0 EXCEPT !.type = Str(ty), !.timestamp = ts, !.total_debt = td,
                !.amount_usd = amt, !.usd = usd]

DebtEvents ==
    { DebtEv(TyBorrow,   Num(Big(0, 10)), Num(100),  Num(100), PyNone),
      DebtEv(TyRepay,    Num(Big(0, 20)), Num(80),   Num(20),  PyNone),
      DebtEv(TyRepay,    Num(Big(0, 20)), Num(60),   PyNone,   PyNone),
      \* timestamp -5
      DebtEv(TyBorrow,   Num(Big(-1, 999995)), Num(100), Num(100), PyNone),
      \* timestamp 1 700 000 000 (seconds)
      DebtEv(TyBorrow,   Num(Big(1700, 0)), Num(80), PyNone, PyNone),
      \* timestamp 1 600 000 000 000 (milliseconds)
      DebtEv(TyRepay,    Num(Big(1600000, 0)), Num(100), PyNone, PyNone),
      DebtEv(TyRepay,    PyNone,          Num(-5),   Num(10),  PyNone),
      DebtEv(TyBorrow,   Num(Big(0, 10)), PyNone,    Num(100), PyNone),
      DebtEv(TyRepay,    Num(Big(0, 20)), PyNone,    Num(-50), PyNone),
      DebtEv(TyRepay,    Num(Big(0, 20)), PyNone,    PyNone,   Num(150)),
      DebtEv(TyBorrow,   Num(Big(0, 10)), PyNone,    PyNone,   PyNone),
      DebtEv(TyRepayRaw, Num(Big(0, 20)), Str(<<"x">>), Num(30), PyNone),
      DebtEv(TyFeesColl, Num(Big(0, 30)), Num(999),  Num(7),   PyNone) }

DebtUnderlying == {PyNone, Num(1000), Num(50)}

NotRun == [done |-> FALSE, v |-> None]
Ran(v) == [done |-> TRUE, v |-> v]

IdleDebt ==
    /\ pos = Position(None, PyNone, PyNone, PyNone, <<>>)
    /\ debt_out = NotRun
    /\ net_out = NotRun

IdleEngine ==
    /\ now_dt = 0
    /\ pos_list_open = <<>>
    /\ pos_list_exited = <<>>
    /\ call = "none"
    /\ ret = <<>>

IdleTg ==
    /\ tg_token = FALSE
    /\ tg_chat = FALSE
    /\ tg_text = <<>>
    /\ tg_pc = "idle"
    /\ tg_chunks = <<>>
    /\ tg_sent = 0

IdleSc ==
    /\ sc_fn = "none"
    /\ sc_attempt = 0
    /\ sc_pc = "idle"
    /\ sc_err = "none"
    /\ sc_calls = 0
    /\ sc_wait = 0

IdleMain ==
    /\ mode = "DAILY"
    /\ backfill_once = FALSE
    /\ backfill_days = 0
    /\ backfill_offset = 0
    /\ only_name = <<>>
    /\ safes = <<>>
    /\ gi = 0
    /\ main_pc = "idle"
    /\ bf_d = 0
    /\ bf_log = <<>>
    /\ exc = "none"
    /\ ledger = {}
    /\ log = <<>>

IdleTs ==
    /\ ts_raw = <<>>
    /\ ts_sec = <<>>

IdleWs ==
    /\ ws_cells = <<>>
    /\ ws_empty = <<>>
    /\ ws_log = <<>>

InitDebt ==
    /\ IdleEngine /\ IdleTg /\ IdleSc /\ IdleMain /\ IdleWs /\ IdleTs
    /\ \E u \in DebtUnderlying, cfs \in SeqUpTo(DebtEvents, MaxCashFlows) :
           pos = Position(None, u, PyNone, PyNone, cfs)
    /\ debt_out = NotRun
    /\ net_out = NotRun

ExtractRepay ==
    /\ ~debt_out.done
    /\ debt_out' = Ran(Some(extract_repay_usd_from_cash_flows(pos)))
    /\ UNCHANGED <<pos, net_out, engineVars, tgVars, scVars, mainVars, wsVars, tsVars>>

CalcNet ==
    /\ ~net_out.done
    /\ net_out' = Ran(calc_net_usd(pos))
    /\ UNCHANGED <<pos, debt_out, engineVars, tgVars, scVars, mainVars, wsVars, tsVars>>

NextDebt == ExtractRepay \/ CalcNet

SpecDebt == InitDebt /\ [][NextDebt]_vars

\* The borrow/repay events of cfs that carry a parseable total_debt.
Carriers(cfs) ==
    {i \in 1..Len(cfs) : IsBorrowRepay(cfs[i]) /\ ~IsNone(to_f(cfs[i].total_debt))}

\* The carrier with the greatest timestamp under ts(_), the later one on a tie.
LatestCarrier(cfs, ts(_)) ==
    CHOOSE j \in Carriers(cfs) :
        \A k \in Carriers(cfs) :
            \/ BigLT(ts(cfs[k]), ts(cfs[j]))
            \/ (ts(cfs[k]) = ts(cfs[j]) /\ k <= j)

\* C3: whenever some borrow/repay event carries a parseable total_debt, the
\* debt is max(total_debt, 0) of the carrier with the greatest timestamp (the
\* later in scan order on a tie), whatever the timestamps are; the
\* borrow-minus-repay sum is not used.
C3_LatestTotalDebtWins ==
    (debt_out.done /\ Carriers(pos.cash_flows) # {}) =>
        Val(debt_out.v) =
            Max(Val(to_f(pos.cash_flows[LatestCarrier(pos.cash_flows, DebtTs)].total_debt)), 0)

\* The timestamp in epoch seconds, for an event whose timestamp parses.
NormTs(cf) == Val(_to_ts_sec(cf.timestamp))

\* C4: the Debt Resolver's choice of the latest total_debt snapshot follows the
\* order of the epoch-second values of the timestamps. Stated for histories
\* whose carriers all have a parseable, non-negative timestamp, so that only
\* the unit of the timestamps is at stake.
C4_DebtOrderIsEpochSeconds ==
    LET cfs == pos.cash_flows
    IN  (/\ debt_out.done
         /\ Carriers(cfs) # {}
         /\ \A i \in Carriers(cfs) :
                ~IsNone(_to_ts_sec(cfs[i].timestamp)) /\ BigGE(NormTs(cfs[i]), Big(0, 0)))
        => Val(debt_out.v) = Max(Val(to_f(cfs[LatestCarrier(cfs, NormTs)].total_debt)), 0)

RECURSIVE SumAbsUsd(_, _)
SumAbsUsd(cfs, I) ==
    IF I = {} THEN 0
    ELSE LET i == CHOOSE i \in I : TRUE
         IN  Abs(Val(DebtUsd(cfs[i]))) + SumAbsUsd(cfs, I \ {i})

Priced(cfs, ty) ==
    {i \in 1..Len(cfs) : _lower(cfs[i].type) = ty /\ ~IsNone(DebtUsd(cfs[i]))}

\* C8: the debt is never negative; with no total_debt carrier it is
\* max(sum |USD| of borrows - sum |USD| of repays, 0).
C8_DebtFlooredAtZero ==
    LET cfs == pos.cash_flows
    IN  debt_out.done =>
            /\ Val(debt_out.v) >= 0
            /\ Carriers(cfs) = {} =>
                   Val(debt_out.v) =
                       Max(SumAbsUsd(cfs, Priced(cfs, TyBorrow))
                             - SumAbsUsd(cfs, Priced(cfs, TyRepay)), 0)

\* An over-repaid position without total_debt was resolved to debt 0.
C8_Witness ==
    LET cfs == pos.cash_flows
    IN  /\ debt_out.done
        /\ Carriers(cfs) = {}
        /\ Priced(cfs, TyBorrow) # {}
        /\ SumAbsUsd(cfs, Priced(cfs, TyRepay)) > SumAbsUsd(cfs, Priced(cfs, TyBorrow))
        /\ Val(debt_out.v) = 0

(***************************************************************************)
(* SpecEngine: the aggregators and the report builders on the positions    *)
(* fetched for one group.                                                  *)
(***************************************************************************)
MaxOpen == 2

\* 2026-01-01 12:34:56, 09:00:00 and 03:00:00 JST: one reporting day.
EngineNows == {1767225600 + 12896, 1767225600, 1767225600 - 21600}
EngineEnd == get_period_end_jst(1767225600)
EngineStart == EngineEnd - 86400
WeekStart == EngineEnd - 7 * 86400

FeeEv(ty, ts, amt) == [Ev0 EXCEPT !.type = Str(ty), !.timestamp = ts, !.amount_usd = amt]

\* The fee events of the histories, by what they exercise and their amount.
FeeEvents ==
    [In10        |-> FeeEv(TyFeesColl, Num(ToBig(EngineEnd - 3600)), Num(10)),
     AtStart5    |-> FeeEv(TyClaimedFees, Num(ToBig(EngineStart)), Num(5)),
     AtEnd7      |-> FeeEv(TyFeesColl, Num(ToBig(EngineEnd)), Num(7)),
     Before3     |-> FeeEv(TyFeesColl, Num(ToBig(EngineStart - 1)), Num(3)),
     Collect4    |-> FeeEv(TyCollect, Num(ToBig(EngineEnd - 1)), Num(4)),
     NoTs9       |-> FeeEv(TyFeesColl, Str(<<"x">>), Num(9)),
     Neg6        |-> FeeEv(TyFeesColl, Num(ToBig(EngineEnd - 3600)), Num(-6)),
     Deposit50   |-> FeeEv(TyDeposits, Num(ToBig(EngineEnd - 3600)), Num(50)),
     WeekStart2  |-> FeeEv(TyFeesColl, Num(ToBig(WeekStart)), Num(2)),
     BeforeWeek1 |-> FeeEv(TyFeesColl, Num(ToBig(WeekStart - 1)), Num(1)),
     \* millisecond timestamp, no amount_usd: 2 x $4 reconstructed
     MilliRecon8 |->
         [FeeEv(TyFeesCollRaw, Num(ToMillis(EngineEnd - 3600)), PyNone)
             EXCEPT !.collected_fees_token0 = Num(2), !.price0 = Num(4)],
     \* no amount_usd: |3| x $2 + |-1| x $5 reconstructed, the first alias being 0
     Recon11     |->
         [FeeEv(TyClaimedFees, Num(ToBig(EngineEnd - 7200)), PyNone)
             EXCEPT !.collected_fees_token0 = Num(0), !.fees0 = Num(3), !.price0 = Num(2),
                    !.amount1 = Num(-1), !.price1 = Num(5)],
     Borrow300   |-> DebtEv(TyBorrow, Num(ToBig(EngineStart)), Num(300), PyNone, PyNone)]

OpenPositions ==
    { Position(Some("101"), Num(1000), Num(2), PyNone, <<FeeEvents.In10>>),
      Position(Some("202"), PyNone, Num(1), <<FALSE>>, <<>>),
      Position(None, Num(500), PyNone, <<TRUE>>, <<FeeEvents.AtStart5, FeeEvents.AtEnd7>>),
      Position(Some("202"), Num(100), Num(0), PyNone, <<FeeEvents.Borrow300>>),
      Position(Some("303"), Str(<<"x">>), Num(3), PyNone, <<FeeEvents.MilliRecon8>>),
      Position(Some("101"), Num(0), Num(4), <<TRUE>>, <<FeeEvents.Before3, FeeEvents.Collect4>>),
      Position(Some("404"), Num(200), Num(0), PyNone, <<FeeEvents.NoTs9, FeeEvents.Neg6>>),
      Position(Some("404"), Num(300), Num(5), PyNone, <<FeeEvents.Deposit50, FeeEvents.Recon11>>),
      Position(Some("505"), Num(400), Num(0), <<FALSE>>, <<FeeEvents.WeekStart2, FeeEvents.BeforeWeek1>>),
      Position(Some("505"), Num(1000), Num(6), PyNone, <<>>) }

ExitedLists ==
    { <<>>,
      <<Position(Some("606"), Num(900), Num(0), PyNone, <<FeeEvents.In10>>)>>,
      <<Position(Some("101"), PyNone, PyNone, PyNone, <<FeeEvents.BeforeWeek1, FeeEvents.AtEnd7>>)>> }

\* The windows the callers pass: the week and all time (weekly report), the day.
Windows(end_dt) ==
    { <<ToBig(end_dt - 7 * 86400), ToBig(end_dt)>>,
      <<AllTimeStart, ToBig(end_dt)>>,
      <<ToBig(end_dt - 86400), ToBig(end_dt)>> }

InitEngine ==
    /\ IdleDebt /\ IdleTg /\ IdleSc /\ IdleMain /\ IdleWs /\ IdleTs
    /\ now_dt \in EngineNows
    /\ pos_list_open \in SeqUpTo(OpenPositions, MaxOpen)
    /\ pos_list_exited \in ExitedLists
    /\ call = "none"
    /\ ret = <<>>

CalcFee24h ==
    /\ call = "none"
    /\ call' = "calc_fee_usd_24h_from_cash_flows"
    /\ ret' = calc_fee_usd_24h_from_cash_flows(pos_list_open \o pos_list_exited, now_dt)
    /\ UNCHANGED <<now_dt, pos_list_open, pos_list_exited, debtVars, tgVars, scVars, mainVars, wsVars, tsVars>>

CalcFeesInWindow ==
    /\ call = "none"
    /\ call' = "calc_fees_usd_in_window_from_cash_flows"
    /\ \E w \in Windows(get_period_end_jst(now_dt)) :
           ret' = [start_dt |-> w[1], end_dt |-> w[2],
                   fees |-> calc_fees_usd_in_window_from_cash_flows(
                                pos_list_open \o pos_list_exited, w[1], w[2])]
    /\ UNCHANGED <<now_dt, pos_list_open, pos_list_exited, debtVars, tgVars, scVars, mainVars, wsVars, tsVars>>

BuildDaily ==
    /\ call = "none"
    /\ call' = "build_daily_report_for_safe"
    /\ \E block_level \in {"FULL", "COMPACT", "NONE"} :
           ret' = [block_level |-> block_level,
                   daily |-> build_daily_report_for_safe(
                                 pos_list_open, pos_list_exited,
                                 get_period_end_jst(now_dt), block_level)]
    /\ UNCHANGED <<now_dt, pos_list_open, pos_list_exited, debtVars, tgVars, scVars, mainVars, wsVars, tsVars>>

BuildWeekly ==
    /\ call = "none"
    /\ call' = "build_weekly_report_for_safe"
    /\ ret' = build_weekly_report_for_safe(pos_list_open, pos_list_exited, now_dt)
    /\ UNCHANGED <<now_dt, pos_list_open, pos_list_exited, debtVars, tgVars, scVars, mainVars, wsVars, tsVars>>

NextEngine == CalcFee24h \/ CalcFeesInWindow \/ BuildDaily \/ BuildWeekly

SpecEngine == InitEngine /\ [][NextEngine]_vars

MaxEventIdx(pos_list) ==
    IF pos_list = <<>> THEN 0
    ELSE LET n == CHOOSE n \in {Len(pos_list[i].cash_flows) : i \in 1..Len(pos_list)} :
                      \A i \in 1..Len(pos_list) : Len(pos_list[i].cash_flows) <= n
         IN  n

\* The events of a position list as <<position index, event index>> pairs.
EventsOf(pos_list) ==
    {<<i, j>> \in (1..Len(pos_list)) \X (1..MaxEventIdx(pos_list)) :
        j <= Len(pos_list[i].cash_flows)}

EventAt(pos_list, e) == pos_list[e[1]].cash_flows[e[2]]

\* The events the broad (daily) policy counts in [start, end).
BroadCounted(pos_list, start, end) ==
    {e \in EventsOf(pos_list) :
        LET cf == EventAt(pos_list, e)
        IN  /\ BroadMatch(_lower(cf.type))
            /\ ~IsNone(_to_ts_sec(cf.timestamp))
            /\ BigLE(start, NormTs(cf)) /\ BigLT(NormTs(cf), end)
            /\ ResolveAmount(cf) > 0}

\* The events the strict (window) policy counts in [start, end).
StrictCounted(pos_list, start, end) ==
    {e \in EventsOf(pos_list) :
        LET cf == EventAt(pos_list, e)
        IN  /\ _lower(cf.type) \in {TyFeesColl, TyClaimedFees}
            /\ ~IsNone(_to_ts_sec(cf.timestamp))
            /\ BigLE(start, NormTs(cf)) /\ BigLT(NormTs(cf), end)
            /\ ResolveAmount(cf) > 0}

RECURSIVE SumAmounts(_, _)
SumAmounts(pos_list, E) ==
    IF E = {} THEN 0
    ELSE LET e == CHOOSE e \in E : TRUE
         IN  ResolveAmount(EventAt(pos_list, e)) + SumAmounts(pos_list, E \ {e})

\* C1: the daily aggregator returns normally, and its total, count and
\* per-position subtotals and counts (keyed by nft_id, "UNKNOWN" if absent) are
\* those of the events of a fee/collect/claim type inside the 24h window with
\* a strictly positive resolved amount.
C1_DailyAggregatorSums ==
    LET all == pos_list_open \o pos_list_exited
        end_dt == get_period_end_jst(now_dt)
        E == BroadCounted(all, ToBig(end_dt - 86400), ToBig(end_dt))
        ids == {NftId(all[e[1]]) : e \in E}
        of(id) == {e \in E : NftId(all[e[1]]) = id}
    IN  call = "calc_fee_usd_24h_from_cash_flows" =>
            /\ ~ret.raised
            /\ ret.total = SumAmounts(all, E)
            /\ ret.count = Cardinality(E)
            /\ DOMAIN ret.fee_by_nft = ids
            /\ \A id \in ids :
                   /\ ret.fee_by_nft[id] = SumAmounts(all, of(id))
                   /\ ret.count_by_nft[id] = Cardinality(of(id))

\* C7: the window aggregator counts exactly the fees-collected / claimed-fees
\* events with a strictly positive amount whose normalised timestamp t
\* satisfies start <= t < end; events without a parseable timestamp are not
\* counted.
C7_WindowIsHalfOpen ==
    LET all == pos_list_open \o pos_list_exited
    IN  call = "calc_fees_usd_in_window_from_cash_flows" =>
            LET E == StrictCounted(all, ret.start_dt, ret.end_dt)
            IN  /\ ret.fees.count = Cardinality(E)
                /\ ret.fees.total = SumAmounts(all, E)

\* A window call over a claimed-fees event exactly at start ($5, counted), a
\* fees-collected event exactly at end ($7, not counted) and one with an
\* unparsable timestamp ($9, not counted).
C7_Witness ==
    LET all == pos_list_open \o pos_list_exited
    IN  /\ call = "calc_fees_usd_in_window_from_cash_flows"
        /\ \E e \in EventsOf(all) : EventAt(all, e) = FeeEvents.AtStart5
        /\ \E e \in EventsOf(all) : EventAt(all, e) = FeeEvents.AtEnd7
        /\ \E e \in EventsOf(all) : EventAt(all, e) = FeeEvents.NoTs9
        /\ ret.start_dt = ToBig(EngineStart)
        /\ ret.end_dt = ToBig(EngineEnd)
        /\ ret.fees = [total |-> 5, count |-> 1]

\* C5: in a daily report, an open position whose underlying_value is absent
\* or unparsable adds 0 to the group net total and its own line renders net
\* as N/A.
C5_UndefinedNetLine ==
    (call = "build_daily_report_for_safe" /\ ~ret.daily.raised) =>
        LET defined == {i \in 1..Len(pos_list_open) :
                           ~IsNone(to_f(pos_list_open[i].underlying_value))}
            net(i) == Val(to_f(pos_list_open[i].underlying_value))
                          - extract_repay_usd_from_cash_flows(pos_list_open[i])
        IN  /\ ret.daily.net_total = fmt_money(Some(SumOver(defined, [i \in defined |-> net(i)])))
            /\ ret.block_level # "NONE" =>
                   \A i \in 1..Len(pos_list_open) :
                       i \notin defined => ret.daily.nft_blocks[i].net = <<"N/A">>

\* C6: no APR number is produced when the net value it is computed against
\* is <= 0 or undefined: per position and per group in the daily report, per
\* group in the weekly report.
C6_AprUndefinedWithoutNet ==
    LET nets == [i \in 1..Len(pos_list_open) |-> calc_net_usd(pos_list_open[i])]
        defined == {i \in DOMAIN nets : ~IsNone(nets[i])}
        group_net == SumOver(defined, [i \in defined |-> Val(nets[i])])
    IN  /\ (call = "build_daily_report_for_safe" /\ ~ret.daily.raised) =>
               /\ group_net <= 0 => IsNone(ret.daily.safe_fee_apr)
               /\ ret.block_level # "NONE" =>
                      \A i \in DOMAIN nets :
                          (IsNone(nets[i]) \/ Val(nets[i]) <= 0)
                              => IsNone(ret.daily.nft_blocks[i].nft_fee_apr)
        /\ call = "build_weekly_report_for_safe" =>
               (group_net <= 0 => IsNone(ret.weekly_apr_pct))

\* The first alias that is present and non-null, 0 if there is none.
FirstPresent(aliases) ==
    IF \E i \in 1..Len(aliases) : ~IsNone(to_f(aliases[i]))
    THEN LET i == CHOOSE i \in 1..Len(aliases) :
                      ~IsNone(to_f(aliases[i])) /\ \A j \in 1..(i - 1) : IsNone(to_f(aliases[j]))
         IN  Val(to_f(aliases[i]))
    ELSE 0

\* The amount of an event by first-present aliases: amount_usd when it parses,
\* else |qty0| * price0 + |qty1| * price1.
AliasAmount(cf) ==
    IF ~IsNone(to_f(cf.amount_usd)) THEN Val(to_f(cf.amount_usd))
    ELSE Abs(FirstPresent(<<cf.collected_fees_token0, cf.claimed_token0, cf.fees0, cf.amount0>>))
             * Or0(to_f(cf.price0))
         + Abs(FirstPresent(<<cf.collected_fees_token1, cf.claimed_token1, cf.fees1, cf.amount1>>))
             * Or0(to_f(cf.price1))

\* C12: an event without a parseable amount_usd enters the window aggregate
\* with |qty0| * price0 + |qty1| * price1, qtyN being the first alias that is
\* present and non-null in the order collected_fees_tokenN, claimed_tokenN,
\* feesN, amountN (0 if none), also when that first present value is 0: the
\* total and the count are those of the in-window fee events whose amount,
\* taken that way, is positive.
C12_FirstPresentAlias ==
    LET all == pos_list_open \o pos_list_exited
    IN  call = "calc_fees_usd_in_window_from_cash_flows" =>
            LET E == {e \in EventsOf(all) :
                        LET cf == EventAt(all, e)
                        IN  /\ _lower(cf.type) \in {TyFeesColl, TyClaimedFees}
                            /\ ~IsNone(_to_ts_sec(cf.timestamp))
                            /\ BigLE(ret.start_dt, NormTs(cf)) /\ BigLT(NormTs(cf), ret.end_dt)
                            /\ AliasAmount(cf) > 0}
            IN  /\ ret.fees.count = Cardinality(E)
                /\ ret.fees.total = SumOver(E, [e \in E |-> AliasAmount(EventAt(all, e))])

(***************************************************************************)
(* SpecTelegram: send_telegram on a text of up to MaxLines lines.          *)
(***************************************************************************)
MaxLines == 3

LineLens == {0, 1, max_len \div 2, max_len - 1, max_len, max_len + 1, 2 * max_len + 1}

InitTelegram ==
    /\ IdleDebt /\ IdleEngine /\ IdleSc /\ IdleMain /\ IdleWs /\ IdleTs
    /\ tg_token \in BOOLEAN
    /\ tg_chat \in BOOLEAN
    /\ tg_text \in SeqUpTo(LineLens, MaxLines) \ {<<>>}
    /\ tg_pc = "called"
    /\ tg_chunks = <<>>
    /\ tg_sent = 0

NextTelegram == TgReturnEarly \/ TgSplit \/ TgPostOk \/ TgPostFail \/ TgReturn

SpecTelegram == InitTelegram /\ [][NextTelegram]_vars

\* C9: every message is at most max_len characters long, and a message holds
\* part of a line only when that line alone is longer than max_len, the part
\* being at most max_len long.
C9_ChunksWithinLimit ==
    tg_pc = "post" =>
        \A c \in 1..Len(tg_chunks) :
            /\ StrLen(tg_chunks[c]) <= max_len
            /\ \A k \in 1..Len(tg_chunks[c]) :
                   LET pc == tg_chunks[c][k]
                   IN  (pc.from > 1 \/ pc.to < tg_text[pc.line]) =>
                           (tg_text[pc.line] > max_len /\ PieceLen(pc) <= max_len)

(***************************************************************************)
(* SpecSheets: sheets_call around one ledger operation.                    *)
(***************************************************************************)
SheetOps == {"get_all_values", "update", "update_cell", "append_row", "sort"}

InitSheets ==
    /\ IdleDebt /\ IdleEngine /\ IdleTg /\ IdleMain /\ IdleWs /\ IdleTs
    /\ sc_fn \in SheetOps
    /\ sc_attempt = 0
    /\ sc_pc = "call"
    /\ sc_err = "none"
    /\ sc_calls = 0
    /\ sc_wait = 0

NextSheets == ScCallOk \/ ScCallRaises \/ ScSleep

SpecSheets == InitSheets /\ [][NextSheets]_vars

ExhaustedMsg == "Sheets quota 429 retry exhausted"

\* What sheets_call has done, at every point of a call.
C10_Counts ==
    /\ sc_calls <= MaxAttempts
    /\ sc_pc = "call" => sc_calls = sc_attempt /\ sc_attempt < MaxAttempts
    /\ sc_pc = "sleep" =>
           IsRateLimit(sc_err) /\ sc_calls = sc_attempt + 1 /\ sc_wait = 2 ^ sc_attempt
    /\ sc_pc = "returned" => sc_calls = sc_attempt + 1
    /\ sc_pc = "raised" =>
           \/ ~IsRateLimit(sc_err) /\ sc_err # ExhaustedMsg /\ sc_calls = sc_attempt + 1
           \/ sc_err = ExhaustedMsg /\ sc_calls = MaxAttempts /\ sc_attempt = MaxAttempts

\* C10: sheets_call calls the operation at most 8 times; the call numbered
\* sc_attempt (from 0) is made after sc_attempt rate-limited failures; a
\* rate-limited failure of it is followed by a wait of 2^sc_attempt seconds;
\* the first success returns and any other error propagates, after which no
\* further call is made; the 8th rate-limited failure ends in the fatal
\* "retry exhausted" error.
C10_BoundedBackoff ==
    /\ [](C10_Counts)
    /\ [][(sc_pc \in {"returned", "raised"}) => (scVars' = scVars)]_vars
    /\ [][(sc_pc = "sleep" /\ sc_attempt + 1 = MaxAttempts) =>
              (sc_pc' = "raised" /\ sc_err' = ExhaustedMsg)]_vars

\* Eight rate-limited attempts ended in the fatal error, the last wait being 2^7.
C10_Witness ==
    /\ sc_pc = "raised"
    /\ sc_err = ExhaustedMsg
    /\ sc_calls = 8
    /\ sc_wait = 128

(***************************************************************************)
(* SpecLedger: up to MaxAppends successful calls of                        *)
(* append_daily_wide_numbered on one worksheet.                            *)
(***************************************************************************)
MaxAppends == 3
MaxPeriods == 2

\* <<safe_name, safe_address>> of the groups; "NONAME" is main's default name.
LedgerGroups == {<<"A", "0xA">>, <<"B", "0xB">>, <<"NONAME", "0xC">>}

\* float(claimed_usd_24h) as the cell shows it.
LedgerValues == {"10.0", "25.5"}

\* The worksheet before the first call: without data, with the label of row 2
\* only, or with the headers of a group "A" whose address cell is blank.
PreparedSheets ==
    { <<>>,
      << <<>>, <<LabelNames>> >>,
      << <<"", "1">>, <<LabelNames, "A">>, <<LabelAddrs, " ">> >> }

\* get_all_values of a sheet without data: [] or [[]], by the gspread release.
EmptyReads == {<<>>, << <<>> >>}

InitLedger ==
    /\ IdleDebt /\ IdleEngine /\ IdleTg /\ IdleSc /\ IdleMain /\ IdleTs
    /\ ws_cells \in PreparedSheets
    /\ ws_empty \in EmptyReads
    /\ ws_log = <<>>

\* One call of append_daily_wide_numbered returns.
AppendDailyWide ==
    /\ Len(ws_log) < MaxAppends
    /\ \E grp \in LedgerGroups, d \in 1..MaxPeriods, claimed \in LedgerValues :
           LET r == append_daily_wide_numbered(ws_cells, ws_empty, PeriodKey(d),
                                               grp[1], grp[2], claimed)
           IN  /\ ~r.raised
               /\ ws_cells' = r.cells
               /\ ws_log' = Append(ws_log, [before |-> ws_cells, period_key |-> PeriodKey(d),
                                            safe_name |-> grp[1], safe_address |-> grp[2],
                                            claimed |-> claimed])
    /\ UNCHANGED <<ws_empty, debtVars, engineVars, tgVars, scVars, mainVars, tsVars>>

NextLedger == AppendDailyWide

SpecLedger == InitLedger /\ [][NextLedger]_vars

\* The cell of row r, column c; "" when it holds no data.
Cell(g, r, c) == IF r <= Len(g) /\ c <= Len(g[r]) THEN g[r][c] ELSE ""

\* The columns of the groups named in row 2, and the rows of the period keys.
GroupCols(g) == IF Len(g) >= 2 THEN {c \in 2..Len(g[2]) : g[2][c] # ""} ELSE {}
KeyRows(g, k) == {r \in 4..Len(g) : Cell(g, r, 1) = k}

MaxTimestamps == 2

\* Raw timestamp values: integers around the threshold, a millisecond value,
\* zero and a negative; integer literals as strings; floats; values int()
\* rejects.
TsInputs ==
    { Num(Big(9999, 999999)), Num(Big(10000, 0)), Num(Big(10000, 1)),
      Num(Big(1767225, 600999)), Num(Big(1767, 225600)), Num(Big(0, 0)),
      Num(Big(-1, 999995)),
      Str(<<"1", "7", "6", "7", "2", "2", "5", "6", "0", "0">>),
      Str(<<" ", "1", "0", "0", "0", "0", "0", "0", "0", "0", "0", "1", " ">>),
      Str(<<"-", "5">>),
      Float(1, Big(10000, 0)), Float(1, Big(1767225, 600999)), Float(-1, Big(0, 1)),
      PyNone, Str(<<"x">>), Str(<<"1", ".", "5">>), Str(<<>>), Str(<<"-">>),
      FloatInf, FloatNan }

InitTs ==
    /\ IdleDebt /\ IdleEngine /\ IdleTg /\ IdleSc /\ IdleMain /\ IdleWs
    /\ ts_raw \in SeqUpTo(TsInputs, MaxTimestamps) \ {<<>>}
    /\ ts_sec = <<>>

\* ts = _to_ts_sec(cf.get("timestamp")) for the next event.
ToTsSec ==
    /\ Len(ts_sec) < Len(ts_raw)
    /\ ts_sec' = Append(ts_sec, _to_ts_sec(ts_raw[Len(ts_sec) + 1]))
    /\ UNCHANGED <<ts_raw, debtVars, engineVars, tgVars, scVars, mainVars, wsVars>>

NextTs == ToTsSec

SpecTs == InitTs /\ [][NextTs]_vars

\* 1000 * a, for a two-limb a >= 0.
BigTimes1000(a) == <<a[1] * 1000 + (a[2] * 1000) \div 1000000, (a[2] * 1000) % 1000000>>
BigPlus999(a) == IF a[2] + 999 < 1000000 THEN <<a[1], a[2] + 999>>
                 ELSE <<a[1] + 1, a[2] + 999 - 1000000>>

\* The values int() converts, with the integer they convert to.
IntegerOf ==
    [x \in {y \in TsInputs : IsNum(y)} |-> x[1]]
    @@ (Str(<<"1", "7", "6", "7", "2", "2", "5", "6", "0", "0">>) :> Big(1767, 225600))
    @@ (Str(<<" ", "1", "0", "0", "0", "0", "0", "0", "0", "0", "0", "1", " ">>) :> Big(10000, 1))
    @@ (Str(<<"-", "5">>) :> Big(-1, 999995))
    @@ (Float(1, Big(10000, 0)) :> Big(10000, 0))
    @@ (Float(1, Big(1767225, 600999)) :> Big(1767225, 600999))
    @@ (Float(-1, Big(0, 1)) :> Big(-1, 999999))

\* C13: for a value that converts to the integer n, _to_ts_sec gives n // 1000
\* (the q with 1000 q <= n <= 1000 q + 999) when n > 10,000,000,000 and n
\* otherwise, so that 9,999,999,999 and 10,000,000,000 stay and 10,000,000,001
\* becomes 10,000,000; for a value that does not convert it gives None.
C13_ToTsSec ==
    \A i \in 1..Len(ts_sec) :
        LET x == ts_raw[i]
            r == ts_sec[i]
        IN  IF x \in DOMAIN IntegerOf
            THEN LET n == IntegerOf[x]
                 IN  /\ ~IsNone(r)
                     /\ IF BigGT(n, Big(10000, 0))
                        THEN /\ BigLE(BigTimes1000(Val(r)), n)
                             /\ BigLE(n, BigPlus999(BigTimes1000(Val(r))))
                        ELSE Val(r) = n
                     /\ n = Big(9999, 999999) => Val(r) = Big(9999, 999999)
                     /\ n = Big(10000, 1) => Val(r) = Big(10, 0)
            ELSE IsNone(r)

\* A history with 10,000,000,001 and a string that is no integer, converted.
C13_Witness ==
    /\ Len(ts_sec) = 2
    /\ ts_raw = <<Num(Big(10000, 1)), Str(<<"1", ".", "5">>)>>
    /\ ts_sec = <<Some(Big(10, 0)), None>>

(***************************************************************************)
(* main: the loop over the configured groups                               *)
(***************************************************************************)
\* name = (s.get("name") or "NONAME").strip()
GroupName(s) ==
    IF IsStr(s.name) /\ s.name[2] # <<>> THEN StrStrip(s.name[2])
    ELSE <<"N","O","N","A","M","E">>

\* The three tests that `continue` before the try.
Skipped(s) ==
    \/ only_name # <<>> /\ StrUpper(GroupName(s)) # only_name
    \/ ~s.safe_address
    \/ (~backfill_once \/ backfill_days <= 0) /\ ~s.telegram_chat_id

\* if backfill_once and backfill_days > 0
InBackfill == backfill_once /\ backfill_days > 0

\* The exceptions the calls of the try body raise, by message: the builders
\* (a failed fetch, the aggregator), append_daily_wide_numbered (an unwrapped
\* gspread call, sheets_call giving up, any other), maybe_sort_daily_wide_by_date.
BuildErrors == {"HTTPError"}
AppendErrors == {"APIError: [429]", ExhaustedMsg, "APIError: [500]"}
SortErrors == {"Quota exceeded", "APIError: [500]"}

\* The report texts (the lengths of their lines): one message, two messages.
ReportTexts == {<<28, 0, 4, 42>>, <<max_len, max_len>>}
ErrorText == <<12, 0, 4, 1, 0, 4, 42, 0, 5, 9>>

\* bf_end_dt = get_period_end_jst() - timedelta(days=backfill_offset + d)
BackfillEnd(day) == get_period_end_jst(now_dt) - (backfill_offset + day) * 86400

\* The end of the group's iteration of the for loop; the locals are gone.
FinishGroup(outcome, notify) ==
    /\ log' = Append(log, [g |-> gi, outcome |-> outcome, notify |-> notify])
    /\ gi' = gi + 1
    /\ main_pc' = "loop"
    /\ bf_d' = 0
    /\ bf_log' = <<>>
    /\ exc' = "none"
    /\ tg_text' = <<>> /\ tg_chat' = FALSE /\ tg_pc' = "idle"
    /\ tg_chunks' = <<>> /\ tg_sent' = 0
    /\ UNCHANGED tg_token

\* send_telegram(text, chat_id) is called.
CallTelegram(text) ==
    /\ tg_text' = text
    /\ tg_chat' = safes[gi].telegram_chat_id
    /\ tg_pc' = "called"
    /\ tg_chunks' = <<>>
    /\ tg_sent' = 0
    /\ UNCHANGED tg_token

\* The next day of `for d in range(backfill_days, 0, -1)`, or the end of the loop.
BackfillNextDay(result) ==
    /\ bf_log' = Append(bf_log, [d |-> bf_d, result |-> result])
    /\ bf_d' = bf_d - 1
    /\ main_pc' = IF bf_d - 1 >= 1 THEN "backfill_build" ELSE "backfill_sort"

\* for s in safes: a skipped group, or the try body is entered.
MainLoop ==
    /\ main_pc = "loop"
    /\ gi <= Len(safes)
    /\ IF Skipped(safes[gi])
       THEN FinishGroup("skipped", "none")
       ELSE /\ main_pc' = IF mode = "WEEKLY" THEN "weekly_build"
                           ELSE IF InBackfill THEN "backfill_build"
                           ELSE "daily_build"
            /\ bf_d' = IF mode # "WEEKLY" /\ InBackfill THEN backfill_days ELSE 0
            /\ UNCHANGED <<gi, bf_log, exc, log, tgVars>>
    /\ UNCHANGED <<ledger, cfgVars, idleVars>>

\* The for loop is over (or safes is empty): main returns.
MainDone ==
    /\ main_pc = "loop"
    /\ gi > Len(safes)
    /\ main_pc' = "done"
    /\ UNCHANGED <<gi, bf_d, bf_log, exc, ledger, log, cfgVars, tgVars, idleVars>>

\* build_weekly_report_for_safe / build_daily_report_for_safe returns and
\* send_telegram(report, chat_id) is called.
MainBuildOk ==
    /\ main_pc \in {"weekly_build", "daily_build"}
    /\ main_pc' = IF main_pc = "weekly_build" THEN "weekly_send" ELSE "daily_send"
    /\ \E text \in ReportTexts : CallTelegram(text)
    /\ UNCHANGED <<gi, bf_d, bf_log, exc, ledger, log, cfgVars, idleVars>>

\* The builder raises.
MainBuildRaises ==
    /\ main_pc \in {"weekly_build", "daily_build"}
    /\ \E msg \in BuildErrors : exc' = msg
    /\ main_pc' = "except"
    /\ UNCHANGED <<gi, bf_d, bf_log, ledger, log, cfgVars, tgVars, idleVars>>

\* send_telegram returned: the weekly group is done, the daily group goes on
\* to append_daily_wide_numbered.
MainSendReturned ==
    /\ main_pc \in {"weekly_send", "daily_send"}
    /\ tg_pc = "returned"
    /\ IF main_pc = "weekly_send"
       THEN FinishGroup("ok", "none")
       ELSE main_pc' = "daily_append" /\ UNCHANGED <<gi, bf_d, bf_log, exc, log, tgVars>>
    /\ UNCHANGED <<ledger, cfgVars, idleVars>>

\* send_telegram raised.
MainSendRaised ==
    /\ main_pc \in {"weekly_send", "daily_send"}
    /\ tg_pc = "raised"
    /\ exc' = "HTTPError"
    /\ main_pc' = "except"
    /\ UNCHANGED <<gi, bf_d, bf_log, ledger, log, cfgVars, tgVars, idleVars>>

\* append_daily_wide_numbered(end_dt, name, safe, fee_usd) returns.
MainAppendOk ==
    /\ main_pc = "daily_append"
    /\ ledger' = ledger \cup {<<GroupName(safes[gi]), get_period_end_jst(now_dt)>>}
    /\ FinishGroup("ok", "none")
    /\ UNCHANGED <<cfgVars, idleVars>>

\* append_daily_wide_numbered raises.
MainAppendRaises ==
    /\ main_pc = "daily_append"
    /\ \E msg \in AppendErrors : exc' = msg
    /\ main_pc' = "except"
    /\ UNCHANGED <<gi, bf_d, bf_log, ledger, log, cfgVars, tgVars, idleVars>>

\* Backfill day d: build_daily_report_for_safe(safe, bf_end_dt, "NONE") returns.
MainBackfillBuildOk ==
    /\ main_pc = "backfill_build"
    /\ main_pc' = "backfill_append"
    /\ UNCHANGED <<gi, bf_d, bf_log, exc, ledger, log, cfgVars, tgVars, idleVars>>

\* Backfill day d: append_daily_wide_numbered returns; time.sleep(0.6).
MainBackfillAppendOk ==
    /\ main_pc = "backfill_append"
    /\ ledger' = ledger \cup {<<GroupName(safes[gi]), BackfillEnd(bf_d)>>}
    /\ BackfillNextDay("ok")
    /\ UNCHANGED <<gi, exc, log, cfgVars, tgVars, idleVars>>

\* Backfill day d raises: `break` on a rate-limit message, `continue` otherwise.
MainBackfillDayRaises ==
    /\ main_pc \in {"backfill_build", "backfill_append"}
    /\ \E msg \in (IF main_pc = "backfill_build" THEN BuildErrors ELSE AppendErrors) :
           IF IsRateLimit(msg)
           THEN /\ bf_log' = Append(bf_log, [d |-> bf_d, result |-> msg])
                /\ main_pc' = "backfill_sort"
                /\ UNCHANGED bf_d
           ELSE BackfillNextDay(msg)
    /\ UNCHANGED <<gi, exc, ledger, log, cfgVars, tgVars, idleVars>>

\* maybe_sort_daily_wide_by_date() returns (switched off, sorted, or the sort
\* error swallowed).
MainBackfillSortOk ==
    /\ main_pc = "backfill_sort"
    /\ FinishGroup("ok", "none")
    /\ UNCHANGED <<ledger, cfgVars, idleVars>>

\* maybe_sort_daily_wide_by_date() raises before its own try (get_gsheet,
\* worksheet, get_all_values).
MainBackfillSortRaises ==
    /\ main_pc = "backfill_sort"
    /\ \E msg \in SortErrors : exc' = msg
    /\ main_pc' = "except"
    /\ UNCHANGED <<gi, bf_d, bf_log, ledger, log, cfgVars, tgVars, idleVars>>

\* What follows an exception of the error notification: `except Exception: pass`
\* ends the handler and the for loop goes on.
AfterNotifyFailureMutant == "aborted"
AfterNotifyFailure == "loop"

\* except Exception as e: the error notification is sent if there is a chat_id.
MainExcept ==
    /\ main_pc = "except"
    /\ IF safes[gi].telegram_chat_id
       THEN /\ main_pc' = "error_send"
            /\ CallTelegram(ErrorText)
            /\ UNCHANGED <<gi, bf_d, bf_log, exc, log>>
       ELSE FinishGroup("error", "no_chat")
    /\ UNCHANGED <<ledger, cfgVars, idleVars>>

\* The error notification returned.
MainNotifyReturned ==
    /\ main_pc = "error_send"
    /\ tg_pc = "returned"
    /\ FinishGroup("error", "attempted")
    /\ UNCHANGED <<ledger, cfgVars, idleVars>>

\* The error notification raised.
MainNotifyRaised ==
    /\ main_pc = "error_send"
    /\ tg_pc = "raised"
    /\ IF AfterNotifyFailure = "loop"
       THEN FinishGroup("error", "failed")
       ELSE main_pc' = AfterNotifyFailure
            /\ UNCHANGED <<gi, bf_d, bf_log, exc, log, tgVars>>
    /\ UNCHANGED <<ledger, cfgVars, idleVars>>

(***************************************************************************)
(* Spec: one run of main over up to MaxGroups configured groups.           *)
(***************************************************************************)
MaxGroups == 2
MaxBackfillDays == 2

GroupConfigs ==
    { [name |-> Str(<<"a">>), safe_address |-> TRUE, telegram_chat_id |-> TRUE],
      [name |-> Str(<<"B"," ">>), safe_address |-> TRUE, telegram_chat_id |-> FALSE],
      [name |-> PyNone, safe_address |-> FALSE, telegram_chat_id |-> TRUE] }

\* <<BACKFILL_ONCE = "1", BACKFILL_DAYS, BACKFILL_OFFSET_DAYS>>
BackfillSettings ==
    {<<FALSE, 0, 0>>, <<TRUE, 0, 0>>, <<FALSE, 1, 0>>, <<TRUE, 1, 1>>}
        \cup {<<TRUE, n, 0>> : n \in 1..MaxBackfillDays}

Init ==
    /\ IdleDebt /\ IdleSc /\ IdleWs /\ IdleTs
    /\ now_dt = 1767225600 + 12896
    /\ pos_list_open = <<>>
    /\ pos_list_exited = <<>>
    /\ call = "none"
    /\ ret = <<>>
    /\ tg_token \in BOOLEAN
    /\ tg_chat = FALSE
    /\ tg_text = <<>>
    /\ tg_pc = "idle"
    /\ tg_chunks = <<>>
    /\ tg_sent = 0
    /\ mode \in {"DAILY", "WEEKLY"}
    /\ \E b \in BackfillSettings :
           backfill_once = b[1] /\ backfill_days = b[2] /\ backfill_offset = b[3]
    /\ only_name \in {<<>>, <<"A">>}
    /\ safes \in SeqUpTo(GroupConfigs, MaxGroups)
    /\ gi = 1
    /\ main_pc = "loop"
    /\ bf_d = 0
    /\ bf_log = <<>>
    /\ exc = "none"
    /\ ledger = {}
    /\ log = <<>>

Next ==
    \/ MainLoop \/ MainDone
    \/ MainBuildOk \/ MainBuildRaises \/ MainSendReturned \/ MainSendRaised
    \/ MainAppendOk \/ MainAppendRaises
    \/ MainBackfillBuildOk \/ MainBackfillAppendOk \/ MainBackfillDayRaises
    \/ MainBackfillSortOk \/ MainBackfillSortRaises
    \/ MainExcept \/ MainNotifyReturned \/ MainNotifyRaised
    \/ TgReturnEarly \/ TgSplit \/ TgPostOk \/ TgPostFail \/ TgReturn

Spec == Init /\ [][Next]_vars

\* The places of main at which the run is alive: the head of the for loop, a
\* call of the try body or of the handler in progress, and the normal return.
MainAlive ==
    {"loop", "weekly_build", "weekly_send", "daily_build", "daily_send",
     "daily_append", "backfill_build", "backfill_append", "backfill_sort",
     "except", "error_send", "done"}

\* C2: whatever each group's build, delivery and ledger write do, no exception
\* leaves the for loop: the groups are finished one by one in the order of the
\* list and main returns only after the last of them; a group whose try body
\* raised is finished as an error after its error notification was attempted
\* (it returned or raised) when the group has a chat_id, and without one when
\* it has no chat_id.
C2_EveryGroupProcessed ==
    /\ main_pc \in MainAlive
    /\ Len(log) = gi - 1
    /\ \A i \in 1..Len(log) :
           /\ log[i].g = i
           /\ log[i].outcome = "error" =>
                  log[i].notify \in (IF safes[i].telegram_chat_id
                                      THEN {"attempted", "failed"} ELSE {"no_chat"})
    /\ main_pc = "done" => Len(log) = Len(safes)
    /\ main_pc \in {"weekly_send", "daily_send", "error_send"} => tg_pc # "idle"

\* A run of two groups ended; the first group raised and so did its error
\* notification, the second group was then processed normally.
C2_Witness ==
    /\ main_pc = "done"
    /\ Len(safes) = MaxGroups
    /\ Len(log) = MaxGroups
    /\ log[1].outcome = "error" /\ log[1].notify = "failed"
    /\ log[MaxGroups].outcome = "ok"

\* C14: in daily mode without backfill, append_daily_wide_numbered is reached
\* only after send_telegram posted every chunk of the report (a non-empty
\* text has at least one), and the ledger holds the period of exactly the
\* groups whose build, delivery and write all returned: a group that raised,
\* or one of whose posts failed, has no ledger write.
C14_LedgerAfterDelivery ==
    (mode = "DAILY" /\ ~InBackfill /\ main_pc \in MainAlive) =>
        /\ main_pc = "daily_append" =>
               /\ tg_pc = "returned"
               /\ tg_chunks # <<>>
               /\ tg_chunks = SplitLines(tg_text, 1, <<>>, <<>>)
               /\ tg_sent = Len(tg_chunks)
        /\ ledger = {<<GroupName(safes[i]), get_period_end_jst(now_dt)>> :
                        i \in {k \in 1..Len(log) : log[k].outcome = "ok"}}

\* The messages of a day that failed because of ledger rate limiting: a 429
\* of an unwrapped call, and sheets_call giving up after its retries.
RateLimitFailures == {"APIError: [429]", "Quota exceeded", ExhaustedMsg}

\* C15: in backfill mode the days of the group are attempted oldest first
\* (d = BACKFILL_DAYS down to 1, a written day being the period end of today
\* minus (offset + d) days); after a day that failed because of ledger rate
\* limiting, sheets_call's exhausted retries included, no further day is
\* attempted; after any other outcome the next day is attempted, down to d = 1.
C15_BackfillStopsOnRateLimit ==
    (main_pc \in {"backfill_build", "backfill_append", "backfill_sort"}) =>
        /\ \A k \in 1..Len(bf_log) :
               /\ bf_log[k].d = backfill_days - k + 1
               /\ bf_log[k].result = "ok" =>
                      <<GroupName(safes[gi]), BackfillEnd(bf_log[k].d)>> \in ledger
               /\ k < Len(bf_log) => bf_log[k].result \notin RateLimitFailures
        /\ main_pc \in {"backfill_build", "backfill_append"} =>
               /\ bf_d = backfill_days - Len(bf_log)
               /\ bf_log # <<>> => bf_log[Len(bf_log)].result \notin RateLimitFailures
        /\ main_pc = "backfill_sort" =>
               \/ Len(bf_log) = backfill_days
               \/ bf_log[Len(bf_log)].result \in RateLimitFailures

====
